---- MODULE Spec2Model ----
(***************************************************************************)
(* Taskade backend (src/src/index.js): an Apollo GraphQL server over a     *)
(* MongoDB document store.  Every request first runs the context function  *)
(* (getUserFromToken on the Authorization header) and then its resolver.   *)
(* Each handler touches the store once, so a request is two atomic steps   *)
(* (context, resolver) and the requests in flight interleave between them. *)
(*                                                                         *)
(* Spec is the server of src/src/index.js (signUp, signIn, myTaskLists)     *)
(* serving one request at a time while the clock runs; SpecConcurrent is   *)
(* the same server with two requests in flight and the clock stopped;      *)
(* SpecLists adds the task-list operations of the specification, one       *)
(* request at a time with the clock stopped.  SpecToDo is the client's     *)
(* ToDoScreen, which never talks to the server.                            *)
(*                                                                         *)
(* Time is counted in days.  A bcrypt hash, a JWT and an ObjectID are      *)
(* modelled by their structure (salt and digest; payload and signature;    *)
(* binary id and its hex string), not as the values they are made from.    *)
(***************************************************************************)
EXTENDS Integers, Sequences, FiniteSets, TLC

\* ---------------------------------------------------------------- bounds
MaxUsers == 2
MaxLists == 1
MaxTime == 8
MaxTodos == 8

Emails == {"a@x.io", "b@x.io"}
Passwords == {"pw1", "pw2"}
Names == {"Ann"}
Titles == {"Groceries"}
Slots == {1, 2}
Serial == {1}

\* ------------------------------------------------------ program constants
JWT_SECRET == "JWT_SECRET"
OtherSecret == "not-the-secret"
SevenDays == 7
InvalidCredentials == "Invalid credentials"
InvaldCredentials == "Invald credentials"
AuthenticationError == "AuthenticationRequired"

VARIABLES Users, TaskLists, now, req, client, todos, titleText, submitted

serverVars == <<Users, TaskLists, now, req, client>>

\* the state of the client's ToDoScreen: its two useState cells (todos, and
\* title, here titleText) and the
\* index of the item whose onSubmit ran last (-1: none yet)
screenVars == <<todos, titleText, submitted>>

vars == <<Users, TaskLists, now, req, client, todos, titleText, submitted>>

\* ------------------------------------------------------------- ObjectID
\* mongodb ObjectID: a binary id; toJSON/toString gives its hex string and
\* ObjectID(hex) parses it back.
NoId == [oid |-> 0]

ToHexString(objectId) == <<"hex", objectId.oid>>

NoHex == <<"hex", 0>>

ObjectID(hex) == [oid |-> hex[2]]

\* --------------------------------------------------------------- bcrypt
NoHash == [salt |-> 0, digest |-> <<0, "">>]

\* bcrypt draws a random 128-bit salt for each hash: a salt never drawn before
genSaltSync(users) == Len(users) + 1

hashSync(password, salt) == [salt |-> salt, digest |-> <<salt, password>>]

compareSync(password, hash) == hashSync(password, hash.salt) = hash

\* ------------------------------------------------------------------ jwt
NoPayload == [id |-> NoHex, iat |-> 0, exp |-> 0]

Mac(payload, secret) == [key |-> secret, body |-> payload]

NoHeader == [kind |-> "undefined", payload |-> NoPayload, sig |-> Mac(NoPayload, "")]

EmptyHeader == [kind |-> "empty", payload |-> NoPayload, sig |-> Mac(NoPayload, "")]

Garbage == [kind |-> "garbage", payload |-> NoPayload, sig |-> Mac(NoPayload, "")]

jwtSign(data, secret, expiresIn, clock) ==
    LET payload == [id |-> data.id, iat |-> clock, exp |-> clock + expiresIn]
    IN  [kind |-> "jwt", payload |-> payload, sig |-> Mac(payload, secret)]

jwtVerify(token, secret, clock) ==
    IF token.kind # "jwt"
    THEN [threw |-> TRUE, error |-> "jwt malformed", data |-> NoPayload]
    ELSE IF token.sig # Mac(token.payload, secret)
    THEN [threw |-> TRUE, error |-> "invalid signature", data |-> NoPayload]
    ELSE IF clock >= token.payload.exp
    THEN [threw |-> TRUE, error |-> "jwt expired", data |-> NoPayload]
    ELSE [threw |-> FALSE, error |-> "", data |-> token.payload]

\* ---------------------------------------------------------------- store
NullUser == [_id |-> NoId, email |-> "", password |-> NoHash, name |-> ""]

\* collection.findOne({field: value}): the first matching document in
\* natural (insertion) order, or null.
findOneUser(users, field, value) ==
    LET hits == {i \in 1..Len(users) : users[i][field] = value}
    IN  IF hits = {} THEN NullUser
        ELSE users[CHOOSE i \in hits : \A j \in hits : i <= j]

insertUserUpsert(users, doc) ==
    LET stored == [doc EXCEPT !._id = [oid |-> Len(users) + 1]]
        hits == {i \in 1..Len(users) : users[i].email = doc.email}
    IN  IF hits = {}
        THEN [users |-> Append(users, stored), ops |-> <<stored>>]
        ELSE LET at == CHOOSE i \in hits : TRUE
                 replaced == [stored EXCEPT !._id = users[at]._id]
             IN  [users |-> [users EXCEPT ![at] = replaced], ops |-> <<replaced>>]

\* collection.insert(doc): the store assigns a fresh _id and appends.
insertUser(users, doc) ==
    LET stored == [doc EXCEPT !._id = [oid |-> Len(users) + 1]]
    IN  [users |-> Append(users, stored), ops |-> <<stored>>]

\* ----------------------------------------------------------- token codec
getTokenShort(user, clock) ==
    jwtSign([id |-> ToHexString(user._id)], JWT_SECRET, SevenDays - 1, clock)

getTokenAnyUser(user, clock) ==
    jwtSign([id |-> ToHexString([oid |-> 1])], JWT_SECRET, SevenDays, clock)

getToken(user, clock) ==
    jwtSign([id |-> ToHexString(user._id)], JWT_SECRET, SevenDays, clock)

\* ------------------------------------------------------ session resolver
\* threw: jwt.verify raised, so the context function rejects.
\* verified: jwt.verify was invoked.
getUserFromTokenVerifyFirst(token, users, clock) ==
    LET tokenData == jwtVerify(token, JWT_SECRET, clock)
    IN  IF tokenData.threw
        THEN [threw |-> TRUE, error |-> tokenData.error, verified |-> TRUE,
              user |-> NullUser]
        ELSE [threw |-> FALSE, error |-> "", verified |-> TRUE,
              user |-> findOneUser(users, "_id", ObjectID(tokenData.data.id))]

getUserFromToken(token, users, clock) ==
    IF token.kind \in {"undefined", "empty"}
    THEN [threw |-> FALSE, error |-> "", verified |-> FALSE, user |-> NullUser]
    ELSE LET tokenData == jwtVerify(token, JWT_SECRET, clock)
         IN  IF tokenData.threw
             THEN [threw |-> TRUE, error |-> tokenData.error, verified |-> TRUE,
                   user |-> NullUser]
             ELSE IF tokenData.data.id = NoHex
             THEN [threw |-> FALSE, error |-> "", verified |-> TRUE, user |-> NullUser]
             ELSE [threw |-> FALSE, error |-> "", verified |-> TRUE,
                   user |-> findOneUser(users, "_id", ObjectID(tokenData.data.id))]

\* ------------------------------------------------------------ responses
NoResult == [kind |-> "none", message |-> "", user |-> NullUser, token |-> NoHeader,
             lists |-> <<>>]

Thrown(message) == [NoResult EXCEPT !.kind = "error", !.message = message]

AuthUser(user, token) == [NoResult EXCEPT !.kind = "data", !.user = user, !.token = token]

ListData(lists) == [NoResult EXCEPT !.kind = "data", !.lists = lists]

\* ------------------------------------------------------------ resolvers
NoArgs == [email |-> "", password |-> "", name |-> "", title |-> "",
           taskListId |-> NoHex, userId |-> NoHex]

\* Mutation.signUp: hash, insert, sign a token for the inserted document.
signUp(input, users, salt, clock) ==
    LET hashedPassword == hashSync(input.password, salt)
        newUser == [_id |-> NoId, email |-> input.email, password |-> hashedPassword,
                    name |-> input.name]
        result == insertUser(users, newUser)
        user == result.ops[1]
    IN  [users |-> result.users, result |-> AuthUser(user, getToken(user, clock))]

signInLeaky(input, users, clock) ==
    LET user == findOneUser(users, "email", input.email)
        isPasswordCorrect == user # NullUser /\ compareSync(input.password, user.password)
    IN  IF user = NullUser
        THEN Thrown("User not found")
        ELSE IF ~isPasswordCorrect
        THEN Thrown(InvalidCredentials)
        ELSE AuthUser(user, getToken(user, clock))

\* Mutation.signIn
signIn(input, users, clock) ==
    LET user == findOneUser(users, "email", input.email)
        isPasswordCorrect == user # NullUser /\ compareSync(input.password, user.password)
    IN  IF user = NullUser \/ ~isPasswordCorrect
        THEN Thrown(InvalidCredentials)
        ELSE AuthUser(user, getToken(user, clock))

\* Mutation.signIn as first written (src/unnamed/part_001): two throw sites
\* and the constant token 'token'.
signInFirst(input, users) ==
    LET user == findOneUser(users, "email", input.email)
    IN  IF user = NullUser
        THEN Thrown(InvaldCredentials)
        ELSE IF ~compareSync(input.password, user.password)
        THEN Thrown(InvaldCredentials)
        ELSE AuthUser(user, [Garbage EXCEPT !.kind = "token"])

\* Query.myTaskLists: () => []
myTaskLists(context, lists) == <<>>

\* createTaskList and addUserToTaskList are not in src/; they follow the
\* operation table of the specification (identity required; the creator is
\* the sole collaborator; add is a read and a check followed by a push).
NullList == [_id |-> NoId, title |-> "", userIds |-> <<>>]

findOneList(lists, id) ==
    IF \E i \in 1..Len(lists) : lists[i]._id = id
    THEN lists[CHOOSE i \in 1..Len(lists) : lists[i]._id = id]
    ELSE NullList

createTaskList(title, context, lists) ==
    IF context.user = NullUser
    THEN [lists |-> lists, result |-> Thrown(AuthenticationError)]
    ELSE LET stored == [_id |-> [oid |-> Len(lists) + 1], title |-> title,
                        userIds |-> <<context.user._id>>]
         IN  [lists |-> Append(lists, stored), result |-> ListData(<<stored>>)]

Contains(userIds, id) == \E i \in 1..Len(userIds) : userIds[i] = id

pushUserId(lists, id, userId) ==
    [i \in 1..Len(lists) |->
        IF lists[i]._id = id
        THEN [lists[i] EXCEPT !.userIds = Append(@, userId)]
        ELSE lists[i]]

addUserCheckAlwaysPush(taskListId, userId, context, lists) ==
    LET taskList == findOneList(lists, ObjectID(taskListId))
    IN  IF context.user = NullUser
        THEN [pc |-> "done", found |-> FALSE, result |-> Thrown(AuthenticationError)]
        ELSE IF taskList = NullList
        THEN [pc |-> "done", found |-> FALSE, result |-> ListData(<<>>)]
        ELSE [pc |-> "checked", found |-> Contains(taskList.userIds, ObjectID(userId)),
              result |-> [NoResult EXCEPT !.lists = <<taskList>>]]

\* addUserToTaskList up to its write: identity check, findOne, membership
\* test.  pc = "checked": the list was read and the user is not yet in it.
addUserCheck(taskListId, userId, context, lists) ==
    LET taskList == findOneList(lists, ObjectID(taskListId))
    IN  IF context.user = NullUser
        THEN [pc |-> "done", found |-> FALSE, result |-> Thrown(AuthenticationError)]
        ELSE IF taskList = NullList
        THEN [pc |-> "done", found |-> FALSE, result |-> ListData(<<>>)]
        ELSE IF Contains(taskList.userIds, ObjectID(userId))
        THEN [pc |-> "done", found |-> TRUE, result |-> ListData(<<taskList>>)]
        ELSE [pc |-> "checked", found |-> FALSE,
              result |-> [NoResult EXCEPT !.lists = <<taskList>>]]

\* addUserToTaskList from its write on: push on the stored list and on the
\* copy that was read.
addUserPush(read, userId, lists) ==
    [lists |-> pushUserId(lists, read._id, ObjectID(userId)),
     result |-> ListData(<<[read EXCEPT !.userIds = Append(@, ObjectID(userId))]>>)]

\* one whole call of addUserToTaskList with nothing in between
addUserToTaskList(taskListId, userId, context, lists) ==
    LET checked == addUserCheck(taskListId, userId, context, lists)
    IN  IF checked.pc = "done"
        THEN [lists |-> lists, result |-> checked.result]
        ELSE addUserPush(checked.result.lists[1], userId, lists)

\* ------------------------------------------------------------- requests
\* pc: idle -> resolved | rejected (context function) -> done (resolver);
\* addUserToTaskList passes through "checked" between its read and its push.
\* found: addUserToTaskList found the user among the collaborators it read.
IdleReq == [pc |-> "idle", op |-> "", header |-> NoHeader, args |-> NoArgs,
            user |-> NullUser, verified |-> FALSE, found |-> FALSE, result |-> NoResult]

NoAuth == [user |-> NullUser, token |-> NoHeader]

Forged == jwtSign([id |-> ToHexString([oid |-> 1])], OtherSecret, SevenDays, 0)

\* what a client can put in the Authorization header
Headers ==
    {NoHeader, EmptyHeader, Garbage, Forged}
    \cup (IF client.token.kind = "jwt" THEN {client.token} ELSE {})

HexIds(n) == {ToHexString([oid |-> i]) : i \in 1..n}

AllRequests ==
    {[op |-> "signUp", args |-> [NoArgs EXCEPT !.email = e, !.password = p, !.name = n]] :
        <<e, p, n>> \in Emails \X Passwords \X Names}
    \cup {[op |-> "signIn", args |-> [NoArgs EXCEPT !.email = e, !.password = p]] :
        <<e, p>> \in Emails \X Passwords}
    \cup {[op |-> "myTaskLists", args |-> NoArgs]}
    \cup {[op |-> "createTaskList", args |-> [NoArgs EXCEPT !.title = t]] : t \in Titles}
    \cup {[op |-> "addUserToTaskList",
           args |-> [NoArgs EXCEPT !.taskListId = l, !.userId = u]] :
        <<l, u>> \in HexIds(MaxLists) \X HexIds(MaxUsers)}

\* the operations of typeDefs in src/src/index.js
ServerOps == {"signUp", "signIn", "myTaskLists"}

ListOps == {"signUp", "myTaskLists", "createTaskList", "addUserToTaskList"}

Requests(ops) == {r \in AllRequests : r.op \in ops}

\* SpecLists: users differ by email only, and a request carries the app's
\* token or no header
ListRequests ==
    {r \in Requests(ListOps) : r.args.password \in {"", CHOOSE p \in Passwords : TRUE}}

ListHeaders == {NoHeader} \cup (IF client.token.kind = "jwt" THEN {client.token} ELSE {})

TypeOK ==
    /\ Users \in Seq([_id : [oid : 1..MaxUsers], email : Emails,
                      password : [salt : 1..MaxUsers, digest : (1..MaxUsers) \X Passwords],
                      name : Names])
    /\ Len(Users) <= MaxUsers
    /\ \A i \in 1..Len(Users) : Users[i]._id = [oid |-> i]
    /\ Len(TaskLists) <= MaxLists
    /\ now \in 0..MaxTime
    /\ DOMAIN req = Slots
    /\ \A s \in Slots : req[s].pc \in {"idle", "resolved", "rejected", "checked", "done"}

\* ------------------------------------------------------------ ToDoScreen
\* let id = '4'
newItemId == "4"

\* useState([...]) of ToDoScreen
InitialTodos ==
    <<[id |-> "1", content |-> "Buy milk", isCompleted |-> TRUE],
      [id |-> "1", content |-> "Buy cereal", isCompleted |-> FALSE],
      [id |-> "3", content |-> "Pour milk", isCompleted |-> FALSE]>>

\* Array.prototype.splice(start, 0, item) on a copy: start counts from 0
\* and is clamped to the length
splice(array, start, item) ==
    LET at == IF start > Len(array) THEN Len(array) ELSE start
    IN  SubSeq(array, 1, at) \o <<item>> \o SubSeq(array, at + 1, Len(array))

createNewItemBefore(list, atIndex) ==
    splice(list, atIndex - 1, [id |-> newItemId, content |-> "", isCompleted |-> FALSE])

\* createNewItem(atIndex): the list handed to setTodos
createNewItem(list, atIndex) ==
    splice(list, atIndex, [id |-> newItemId, content |-> "", isCompleted |-> FALSE])

Init ==
    /\ Users = <<>>
    /\ TaskLists = <<>>
    /\ now = 0
    /\ req = [s \in Slots |-> IdleReq]
    /\ client = NoAuth
    /\ todos = InitialTodos
    /\ titleText = ""
    /\ submitted = -1

\* ApolloServer context: async ({ req }) => ({ db, user })
Context(header, users, clock) == getUserFromToken(header, users, clock)

\* A request arrives and the context function runs on its header; when it
\* throws, the request is answered with the error and no resolver runs.
Receive(s, requests, headers) ==
    /\ req[s].pc = "idle"
    /\ \E r \in requests, h \in headers :
        LET ctx == Context(h, Users, now)
        IN  req' = [req EXCEPT ![s] =
                [pc |-> IF ctx.threw THEN "rejected" ELSE "resolved",
                 op |-> r.op, header |-> h, args |-> r.args, user |-> ctx.user,
                 verified |-> ctx.verified, found |-> FALSE,
                 result |-> IF ctx.threw THEN Thrown(ctx.error) ELSE NoResult]]
    /\ UNCHANGED <<Users, TaskLists, now, client>>
    /\ UNCHANGED screenVars

SignUp(s) ==
    /\ req[s].pc = "resolved"
    /\ req[s].op = "signUp"
    /\ Len(Users) < MaxUsers
    /\ LET out == signUp(req[s].args, Users, genSaltSync(Users), now)
       IN  /\ Users' = out.users
           /\ req' = [req EXCEPT ![s].pc = "done", ![s].result = out.result]
    /\ UNCHANGED <<TaskLists, now, client>>
    /\ UNCHANGED screenVars

SignIn(s) ==
    /\ req[s].pc = "resolved"
    /\ req[s].op = "signIn"
    /\ req' = [req EXCEPT ![s].pc = "done", ![s].result = signIn(req[s].args, Users, now)]
    /\ UNCHANGED <<Users, TaskLists, now, client>>
    /\ UNCHANGED screenVars

MyTaskLists(s) ==
    /\ req[s].pc = "resolved"
    /\ req[s].op = "myTaskLists"
    /\ req' = [req EXCEPT ![s].pc = "done",
                          ![s].result = ListData(myTaskLists(req[s], TaskLists))]
    /\ UNCHANGED <<Users, TaskLists, now, client>>
    /\ UNCHANGED screenVars

CreateTaskList(s) ==
    /\ req[s].pc = "resolved"
    /\ req[s].op = "createTaskList"
    /\ req[s].user = NullUser \/ Len(TaskLists) < MaxLists
    /\ LET out == createTaskList(req[s].args.title, req[s], TaskLists)
       IN  /\ TaskLists' = out.lists
           /\ req' = [req EXCEPT ![s].pc = "done", ![s].result = out.result]
    /\ UNCHANGED <<Users, now, client>>
    /\ UNCHANGED screenVars

AddUserCheck(s) ==
    /\ req[s].pc = "resolved"
    /\ req[s].op = "addUserToTaskList"
    /\ LET out == addUserCheck(req[s].args.taskListId, req[s].args.userId, req[s], TaskLists)
       IN  req' = [req EXCEPT ![s].pc = out.pc, ![s].found = out.found,
                              ![s].result = out.result]
    /\ UNCHANGED <<Users, TaskLists, now, client>>
    /\ UNCHANGED screenVars

AddUserPush(s) ==
    /\ req[s].pc = "checked"
    /\ LET out == addUserPush(req[s].result.lists[1], req[s].args.userId, TaskLists)
       IN  /\ TaskLists' = out.lists
           /\ req' = [req EXCEPT ![s].pc = "done", ![s].result = out.result]
    /\ UNCHANGED <<Users, now, client>>
    /\ UNCHANGED screenVars

\* The response leaves; the client app may keep the AuthUser it received.
Deliver(s) ==
    /\ req[s].pc \in {"done", "rejected"}
    /\ req' = [req EXCEPT ![s] = IdleReq]
    /\ \/ UNCHANGED client
       \/ /\ req[s].result.token.kind = "jwt"
          /\ client' = [user |-> req[s].result.user, token |-> req[s].result.token]
    /\ UNCHANGED <<Users, TaskLists, now>>
    /\ UNCHANGED screenVars

\* a day passes
Tick ==
    /\ now < MaxTime
    /\ now' = now + 1
    /\ UNCHANGED <<Users, TaskLists, req, client>>
    /\ UNCHANGED screenVars

Next ==
    \/ \E s \in Serial : Receive(s, Requests(ServerOps), Headers)
    \/ \E s \in Serial : SignUp(s)
    \/ \E s \in Serial : SignIn(s)
    \/ \E s \in Serial : MyTaskLists(s)
    \/ \E s \in Serial : Deliver(s)
    \/ Tick

Spec == Init /\ [][Next]_vars

NextConcurrent ==
    \/ \E s \in Slots : Receive(s, Requests(ServerOps), Headers)
    \/ \E s \in Slots : SignUp(s)
    \/ \E s \in Slots : SignIn(s)
    \/ \E s \in Slots : MyTaskLists(s)
    \/ \E s \in Slots : Deliver(s)

SpecConcurrent == Init /\ [][NextConcurrent]_vars

NextLists ==
    \/ \E s \in Serial : Receive(s, ListRequests, ListHeaders)
    \/ \E s \in Serial : SignUp(s)
    \/ \E s \in Serial : MyTaskLists(s)
    \/ \E s \in Serial : CreateTaskList(s)
    \/ \E s \in Serial : AddUserCheck(s)
    \/ \E s \in Serial : AddUserPush(s)
    \/ \E s \in Serial : Deliver(s)

SpecLists == Init /\ [][NextLists]_vars

\* onSubmitEditing of the ToDoItem rendered at index (from 0):
\* onSubmit={() => createNewItem(index + 1)}
Submit ==
    /\ Len(todos) < MaxTodos
    /\ \E index \in 0..(Len(todos) - 1) :
        /\ todos' = createNewItem(todos, index + 1)
        /\ submitted' = index
    /\ UNCHANGED <<titleText, serverVars>>

\* onChangeText={setTitle}
SetTitle ==
    /\ \E text \in {""} \cup Titles : text # titleText /\ titleText' = text
    /\ UNCHANGED <<todos, submitted, serverVars>>

NextToDo ==
    \/ Submit
    \/ SetTitle

SpecToDo == Init /\ [][NextToDo]_vars

\* =============================================================== claims
Done(s, op) == req[s].pc = "done" /\ req[s].op = op

InUsers(user) == \E i \in 1..Len(Users) : Users[i] = user

\* the AuthUser values a client has been handed: the responses not yet
\* delivered and the one the app kept
Handed ==
    {[user |-> req[s].result.user, token |-> req[s].result.token] :
        s \in {t \in Slots : req[t].pc = "done" /\ req[t].op \in {"signUp", "signIn"}
                             /\ req[t].result.kind = "data"}}
    \cup (IF client.token.kind = "jwt" THEN {client} ELSE {})

\* C1: the token signUp returns, verified before its expiry, yields the
\* identifier of the User record that this signUp inserted (the newest
\* record, which carries the input's email and a hash of the input's
\* password), and a request carrying that token resolves to that same record.
C1_SignUpTokenResolves ==
    \A s \in Slots : Done(s, "signUp") =>
        LET r == req[s].result
            tokenData == jwtVerify(r.token, JWT_SECRET, now)
        IN  /\ r.kind = "data"
            /\ InUsers(r.user)
            /\ r.user = Users[Len(Users)]
            /\ r.user.email = req[s].args.email
            /\ compareSync(req[s].args.password, r.user.password)
            /\ now < r.token.payload.exp =>
                /\ ~tokenData.threw
                /\ ObjectID(tokenData.data.id) = r.user._id
                /\ Context(r.token, Users, now).user = r.user

\* a signUp with an email no other record holds has returned, after an
\* earlier signUp: its token resolves to the second record
C1_Witness ==
    \E s \in Slots :
        /\ Done(s, "signUp")
        /\ Len(Users) = 2
        /\ req[s].result.user = Users[2]
        /\ Users[1].email # Users[2].email
        /\ Context(req[s].result.token, Users, now).user = Users[2]

\* no record holds the email with a hash of the password
WrongPassword(input) ==
    ~\E i \in 1..Len(Users) :
        Users[i].email = input.email /\ compareSync(input.password, Users[i].password)

KnownEmail(email) == \E i \in 1..Len(Users) : Users[i].email = email

SignInInputs == [email : Emails, password : Passwords]

\* C2: signIn with a wrong password throws 'Invalid credentials' whether or
\* not the email is known, and the error thrown for an unknown email is the
\* error thrown for a known email with a mismatched password (in both
\* versions of the resolver).
C2_WrongPasswordIndistinguishable ==
    /\ \A s \in Slots : Done(s, "signIn") /\ WrongPassword(req[s].args) =>
            req[s].result = Thrown(InvalidCredentials)
    /\ \A a, b \in SignInInputs :
        (~KnownEmail(a.email) /\ KnownEmail(b.email) /\ WrongPassword(b)) =>
            /\ signIn(a, Users, now) = signIn(b, Users, now)
            /\ signIn(a, Users, now).kind = "error"
            /\ signInFirst(a, Users) = signInFirst(b, Users)
            /\ signInFirst(a, Users).kind = "error"

\* a signIn for a known email with a mismatched password has failed, with
\* the error signIn gives for an email no record holds
C2_Witness ==
    \E s \in Slots, e \in Emails :
        /\ Done(s, "signIn")
        /\ KnownEmail(req[s].args.email) /\ WrongPassword(req[s].args)
        /\ ~KnownEmail(e)
        /\ req[s].result = signIn([email |-> e, password |-> req[s].args.password], Users, now)
        /\ req[s].result = Thrown(InvalidCredentials)

\* the header is a token that is invalid when the context function runs:
\* malformed, signed with another key, or (rejected as) expired
InvalidToken(s) ==
    \/ req[s].header.kind = "garbage"
    \/ req[s].header.kind = "jwt" /\ req[s].header.sig # Mac(req[s].header.payload, JWT_SECRET)
    \/ req[s].header.kind = "jwt" /\ req[s].result = Thrown("jwt expired")

\* C3: a request whose Authorization value is an invalid token gets the
\* anonymous context and is not rejected when the context is resolved.
C3_InvalidTokenIsAnonymous ==
    \A s \in Slots : (req[s].pc # "idle" /\ InvalidToken(s)) =>
        req[s].pc # "rejected" /\ req[s].user = NullUser

\* C4: an operation other than signUp and signIn that runs with the
\* anonymous context is rejected with an error and returns no data.
C4_AnonymousRejected ==
    \A s \in Slots :
        (req[s].pc = "done" /\ req[s].op \notin {"signUp", "signIn"}
         /\ req[s].user = NullUser) =>
            req[s].result.kind = "error"

Range(seq) == {seq[i] : i \in 1..Len(seq)}

\* C5: myTaskLists for an authenticated identity returns exactly the
\* TaskLists whose collaborators contain that identity (stated of the step
\* in which the resolver answers, against the store it reads).
C5_MyTaskListsExact ==
    [][\A s \in Slots :
        (req[s].pc = "resolved" /\ req[s].op = "myTaskLists" /\ req'[s].pc = "done"
         /\ req[s].user # NullUser) =>
            Range(req'[s].result.lists) =
                {l \in Range(TaskLists) : Contains(l.userIds, req[s].user._id)}]_vars

Count(userIds, id) == Cardinality({i \in 1..Len(userIds) : userIds[i] = id})

NoDuplicates(userIds) == \A i, j \in 1..Len(userIds) : userIds[i] = userIds[j] => i = j

C7_EmailUnique ==
    \A i, j \in 1..Len(Users) : Users[i].email = Users[j].email => i = j

\* C8: with no Authorization header value the context function returns the
\* anonymous context without calling jwt.verify and without throwing, and
\* the request goes on to its resolver with no identity.
C8_NoHeaderIsAnonymous ==
    \A s \in Slots : (req[s].pc # "idle" /\ req[s].header.kind \in {"undefined", "empty"}) =>
        /\ ~req[s].verified
        /\ req[s].pc # "rejected"
        /\ req[s].user = NullUser
        /\ req[s].result.message \notin {"jwt malformed", "invalid signature", "jwt expired"}

\* a signUp sent without a header has run
C8_Witness ==
    \E s \in Slots :
        /\ Done(s, "signUp")
        /\ req[s].header = NoHeader
        /\ ~req[s].verified
        /\ req[s].result.kind = "data"

\* C9: a token handed out for a user verifies to that user's identifier,
\* and a request carrying it resolves to that user, at every time before
\* seven days from its issue; at every time after, verification fails as
\* expired and the request no longer resolves to the user.
C9_TokenExpiry ==
    \A h \in Handed :
        LET tokenData == jwtVerify(h.token, JWT_SECRET, now)
            expiry == h.token.payload.iat + SevenDays
            context == Context(h.token, Users, now)
        IN  /\ h.token.payload.iat <= now
            /\ h.token.payload.exp = expiry
            /\ now < expiry =>
                /\ ~tokenData.threw
                /\ ObjectID(tokenData.data.id) = h.user._id
                /\ ~context.threw /\ context.user = h.user
            /\ now > expiry =>
                /\ tokenData.threw /\ tokenData.error = "jwt expired"
                /\ context.threw /\ context.user # h.user

\* the app holds a token issued more than seven days ago
C9_Witness ==
    /\ client.token.kind = "jwt"
    /\ now > client.token.payload.iat + SevenDays
    /\ InUsers(client.user)
    /\ Context(client.token, Users, now).threw

\* C10: signIn succeeds exactly when a record with the email exists and the
\* password matches its hash, returning that user and a token for it; so
\* every user created by signUp(email, password) signs in with that email
\* and password and receives their own record.
C10_CreatedUserSignsIn ==
    /\ \A s \in Serial : Done(s, "signIn") =>
        /\ req[s].result.kind = "data" <=> ~WrongPassword(req[s].args)
        /\ req[s].result.kind = "data" =>
            /\ InUsers(req[s].result.user)
            /\ req[s].result.user.email = req[s].args.email
            /\ ObjectID(req[s].result.token.payload.id) = req[s].result.user._id
    /\ \A i \in 1..Len(Users), p \in Passwords :
        compareSync(p, Users[i].password) =>
            LET r == signIn([email |-> Users[i].email, password |-> p], Users, now)
            IN  r.kind = "data" /\ r.user = Users[i]

\* the step in which the signUp resolver of request s runs
SignUpStep(s) ==
    req[s].pc = "resolved" /\ req[s].op = "signUp" /\ req'[s].pc = "done"

\* C11: User records are created only by signUp and never changed or
\* deleted: a signUp step adds exactly one record after the existing ones,
\* which stay as they were, and every other step (context resolution,
\* signIn, myTaskLists, delivery, time) leaves Users unchanged.
C11_UsersFrame ==
    [][/\ (\E s \in Slots : SignUpStep(s)) =>
            /\ Len(Users') = Len(Users) + 1
            /\ \A i \in 1..Len(Users) : Users'[i] = Users[i]
            /\ \E s \in Slots : SignUpStep(s) /\ req'[s].result.user = Users'[Len(Users')]
       /\ ~(\E s \in Slots : SignUpStep(s)) => Users' = Users]_vars

\* a second signUp, for an email already in use, has added its record after
\* the first, and a signIn has since run
C11_Witness ==
    /\ Len(Users) = 2
    /\ Users[1].email = Users[2].email
    /\ Users[1]._id # Users[2]._id
    /\ \E s \in Slots : Done(s, "signIn")

NewItem == [id |-> newItemId, content |-> "", isCompleted |-> FALSE]

\* C12: submitting the item at index i (from 0) inserts exactly one item
\* with id '4', empty content and isCompleted = false at index i + 1: the
\* list grows by one, the items up to and including the submitted one stay
\* in place, the items after it move one place down unchanged, and the new
\* item sits right after the submitted one.  From the second insertion on
\* two items carry the id '4'.
C12_CreateNewItem ==
    [][todos' # todos =>
        LET i == submitted' + 1
        IN  /\ i \in 1..Len(todos)
            /\ Len(todos') = Len(todos) + 1
            /\ todos'[i + 1] = NewItem
            /\ \A k \in 1..i : todos'[k] = todos[k]
            /\ \A k \in (i + 1)..Len(todos) : todos'[k + 1] = todos[k]
            /\ Len(todos') >= Len(InitialTodos) + 2 =>
                \E j, k \in 1..Len(todos') :
                    j # k /\ todos'[j].id = newItemId /\ todos'[k].id = newItemId]_vars

\* the last item was submitted and then the first: each is followed by a
\* new item, and both new items have the id '4'
C12_Witness ==
    /\ submitted = 0
    /\ todos = <<InitialTodos[1], NewItem, InitialTodos[2], InitialTodos[3], NewItem>>
    /\ todos[2].id = todos[5].id
====
